---- MODULE Spec2Model ----
(***************************************************************************)
(* Strategies of Axelrod's second tournament                               *)
(* (axelrod/strategies/axelrod_second.py): Champion, Eatherley, Tester,    *)
(* Gladstein and MoreGrofman, each played for one match against an         *)
(* opponent whose moves the match engine appends after every round.        *)
(*                                                                         *)
(* A round is two steps: the strategy's decision call (one action per      *)
(* strategy, the whole of its strategy() method) and the engine's update   *)
(* (the opponent's move is chosen, both moves are appended, the counters   *)
(* are advanced).                                                          *)
(***************************************************************************)
EXTENDS Integers, Sequences, FiniteSets

\* ------------------------------------------------------------------ bounds

\* Rounds played against an opponent that may play anything.
MaxRounds == 9

\* Rounds MoreGrofman plays against an opponent that may play anything: its
\* window rule needs 7 rounds before it starts and several more to bring its own
\* previous move and the window apart.
MaxWindowRounds == 12

\* Rounds played against a scripted opponent (Cooperator, Defector, Alternator).
MaxScriptedRounds == 26

\* random.random() is drawn from {0/RDen, ..., (RDen-1)/RDen}, a grid of [0,1).
RDen == 5

\* ------------------------------------------------------------------ moves

C == "C"
D == "D"
Actions == {C, D}

\* Action.flip
flip(a) == IF a = C THEN D ELSE C

\* No decision is pending.
NoMove == "none"

\* ------------------------------------------------------------ match length

\* match_attributes['length']: a number of rounds, or float('inf').
Finite(k) == [finite |-> TRUE, rounds |-> k]
Infinite == [finite |-> FALSE, rounds |-> 0]

Lengths == {Finite(8), Finite(20), Finite(40), Finite(200), Infinite}

Strategies == {"Champion", "Eatherley", "Tester", "Gladstein", "MoreGrofman"}

Opponents == {"Any", "Cooperator", "Defector", "Alternator"}

VARIABLES
    strategy,           \* the strategy class playing this match
    opponent,           \* the kind of opponent it meets
    length,             \* self.match_attributes['length']
    self_history,       \* self.history
    opp_history,        \* opponent.history
    self_cooperations,  \* self.cooperations
    opp_defections,     \* opponent.defections
    is_TFT,             \* Tester.is_TFT
    patsy,              \* Gladstein.patsy
    r,                  \* the value random.random() returned in the pending call, if any
    phase,              \* the branch of Champion.strategy the pending call returned from
    move,               \* the move the pending call returned, NoMove between rounds
    accesses,           \* the divisions and history reads the pending call made
    twin_history,       \* self.history of a Gladstein run beside a Tester
    twin_cooperations,  \* self.cooperations of that Gladstein
    twin_move           \* the move its pending call returned

vars == <<strategy, opponent, length, self_history, opp_history,
          self_cooperations, opp_defections, is_TFT, patsy, r, phase, move,
          accesses, twin_history, twin_cooperations, twin_move>>

\* The state of the second player of a side-by-side run.
twin_vars == <<twin_history, twin_cooperations, twin_move>>

\* ------------------------------------------------------------ python lists

\* history[-1]
Last(h) == h[Len(h)]

\* history[i] with Python's indexing: 0-based, a negative index counts from the end.
PyIndex(h, i) == IF i >= 0 THEN h[i + 1] ELSE h[Len(h) + i + 1]

\* range(a, b)
PyRange(a, b) == a .. (b - 1)

\* ---------------------------------------------------------------- accesses

\* A division by len(h).
Division(h) == [what |-> "divide", size |-> Len(h), index |-> 0]

\* A read of h[-1].
LastRead(h) == [what |-> "last", size |-> Len(h), index |-> 0 - 1]

\* A read of h[i] in the loop of k86r.
WindowRead(h, i) == [what |-> "window", size |-> Len(h), index |-> i]

\* --------------------------------------------------------------- Champion

\* RoundBelow with an infinite length never below a threshold.
RoundBelowNeverInfinite(current_round, expected_length, num, den) ==
    IF expected_length.finite
    THEN current_round * den < expected_length.rounds * num
    ELSE FALSE

\* RoundBelow with <= in place of <.
RoundBelowInclusive(current_round, expected_length, num, den) ==
    IF expected_length.finite
    THEN current_round * den <= expected_length.rounds * num
    ELSE TRUE

\* current_round < expected_length * num / den, in Python's float arithmetic:
\* inf * num / den is inf, and every integer is below inf.
RoundBelow(current_round, expected_length, num, den) ==
    IF expected_length.finite
    THEN current_round * den < expected_length.rounds * num
    ELSE TRUE

\* PropAtLeastMax with min in place of max.
PropAtLeastMin(defections, n, draw) ==
    \/ 5 * defections >= 2 * n
    \/ RDen * defections >= draw * n

\* defection_prop >= max(0.4, r) with defection_prop = defections / n and
\* r = draw / RDen.
PropAtLeastMax(defections, n, draw) ==
    /\ 5 * defections >= 2 * n
    /\ RDen * defections >= draw * n

ChampionStrategy(self_h, opp_h, opp_def, expected_length, draw) ==
    LET current_round == Len(self_h) IN
    IF current_round = 0
    THEN [move |-> C, phase |-> "first", r |-> <<>>]
    ELSE IF RoundBelow(current_round, expected_length, 1, 20)
    THEN [move |-> C, phase |-> "cooperate", r |-> <<>>]
    ELSE IF RoundBelow(current_round, expected_length, 5, 40)
    THEN [move |-> Last(opp_h), phase |-> "mirror", r |-> <<>>]
    ELSE IF Last(opp_h) = D
    THEN [move |-> IF PropAtLeastMax(opp_def, Len(opp_h), draw) THEN D ELSE C,
          phase |-> "final", r |-> <<draw>>]
    ELSE [move |-> C, phase |-> "final", r |-> <<>>]

\* What Champion.strategy divides by and reads: opponent.history[-1] at line 50,
\* or the division at line 52 and then opponent.history[-1] at line 53.
ChampionAccesses(self_h, opp_h, expected_length) ==
    LET current_round == Len(self_h) IN
    IF current_round = 0 THEN {}
    ELSE IF RoundBelow(current_round, expected_length, 1, 20) THEN {}
    ELSE IF RoundBelow(current_round, expected_length, 5, 40) THEN {LastRead(opp_h)}
    ELSE IF Len(opp_h) = 0 THEN {Division(opp_h)}
    ELSE {Division(opp_h), LastRead(opp_h)}

\* -------------------------------------------------------------- Eatherley

\* random_choice(p) with p = pnum / pden: r is drawn, C when r < p and D if not.
random_choice(pnum, pden, draw) ==
    [move |-> IF draw * pden < pnum * RDen THEN C ELSE D, r |-> <<draw>>]

\* EatherleyStrategy with random_choice(defection_prop) in place of
\* random_choice(1 - defection_prop).
EatherleyStrategyProportionNotInverted(opp_h, opp_def, draw) ==
    IF Len(opp_h) = 0 THEN [move |-> C, r |-> <<>>]
    ELSE IF Last(opp_h) = C THEN [move |-> C, r |-> <<>>]
    ELSE random_choice(opp_def, Len(opp_h), draw)

EatherleyStrategy(opp_h, opp_def, draw) ==
    IF Len(opp_h) = 0 THEN [move |-> C, r |-> <<>>]
    ELSE IF Last(opp_h) = C THEN [move |-> C, r |-> <<>>]
    ELSE random_choice(Len(opp_h) - opp_def, Len(opp_h), draw)

\* What Eatherley.strategy reads and divides by: opponent.history[-1] at
\* line 91, the division at line 95.
EatherleyAccesses(opp_h) ==
    IF Len(opp_h) = 0 THEN {}
    ELSE IF Last(opp_h) = C THEN {LastRead(opp_h)}
    ELSE {LastRead(opp_h), Division(opp_h)}

\* ----------------------------------------------------------------- Tester

\* TesterStrategy without the assignment self.is_TFT = True.
TesterStrategyFlagNotSet(self_h, opp_h, tft) ==
    IF Len(opp_h) = 0 THEN [move |-> D, is_TFT |-> tft]
    ELSE IF tft
    THEN [move |-> IF Last(opp_h) = D THEN D ELSE C, is_TFT |-> tft]
    ELSE IF Last(opp_h) = D THEN [move |-> C, is_TFT |-> tft]
    ELSE IF Len(self_h) \in {1, 2} THEN [move |-> C, is_TFT |-> tft]
    ELSE [move |-> flip(Last(self_h)), is_TFT |-> tft]

\* TesterStrategy with len(self.history) in [1] in place of [1, 2].
TesterStrategyOneCooperation(self_h, opp_h, tft) ==
    IF Len(opp_h) = 0 THEN [move |-> D, is_TFT |-> tft]
    ELSE IF tft
    THEN [move |-> IF Last(opp_h) = D THEN D ELSE C, is_TFT |-> tft]
    ELSE IF Last(opp_h) = D THEN [move |-> C, is_TFT |-> TRUE]
    ELSE IF Len(self_h) \in {1} THEN [move |-> C, is_TFT |-> tft]
    ELSE [move |-> flip(Last(self_h)), is_TFT |-> tft]

\* TesterStrategy with C returned on the first move.
TesterStrategyCooperatesFirst(self_h, opp_h, tft) ==
    IF Len(opp_h) = 0 THEN [move |-> C, is_TFT |-> tft]
    ELSE IF tft
    THEN [move |-> IF Last(opp_h) = D THEN D ELSE C, is_TFT |-> tft]
    ELSE IF Last(opp_h) = D THEN [move |-> C, is_TFT |-> TRUE]
    ELSE IF Len(self_h) \in {1, 2} THEN [move |-> C, is_TFT |-> tft]
    ELSE [move |-> flip(Last(self_h)), is_TFT |-> tft]

TesterStrategy(self_h, opp_h, tft) ==
    IF Len(opp_h) = 0 THEN [move |-> D, is_TFT |-> tft]
    ELSE IF tft
    THEN [move |-> IF Last(opp_h) = D THEN D ELSE C, is_TFT |-> tft]
    ELSE IF Last(opp_h) = D THEN [move |-> C, is_TFT |-> TRUE]
    ELSE IF Len(self_h) \in {1, 2} THEN [move |-> C, is_TFT |-> tft]
    ELSE [move |-> flip(Last(self_h)), is_TFT |-> tft]

\* What Tester.strategy reads: opponent.history[-1] at line 139 and
\* self.history[-1] at line 145 (the slice at line 136 reads no element).
TesterAccesses(self_h, opp_h, tft) ==
    IF Len(opp_h) = 0 THEN {}
    ELSE IF tft THEN {}
    ELSE IF Last(opp_h) = D THEN {LastRead(opp_h)}
    ELSE IF Len(self_h) \in {1, 2} THEN {LastRead(opp_h)}
    ELSE {LastRead(opp_h), LastRead(self_h)}

\* -------------------------------------------------------------- Gladstein

\* GladsteinStrategy without the assignment self.patsy = False.
GladsteinStrategyPatsyKept(self_h, self_coop, opp_h, pat) ==
    IF Len(self_h) = 0 THEN [move |-> D, patsy |-> pat]
    ELSE IF pat
    THEN IF Last(opp_h) = D THEN [move |-> C, patsy |-> pat]
         ELSE IF 2 * self_coop > Len(self_h) THEN [move |-> D, patsy |-> pat]
         ELSE [move |-> C, patsy |-> pat]
    ELSE [move |-> Last(opp_h), patsy |-> pat]

\* GladsteinStrategy with the ratio taken by integer division (self_coop // len).
GladsteinStrategyFloorDivision(self_h, self_coop, opp_h, pat) ==
    IF Len(self_h) = 0 THEN [move |-> D, patsy |-> pat]
    ELSE IF pat
    THEN IF Last(opp_h) = D THEN [move |-> C, patsy |-> FALSE]
         ELSE IF 2 * (self_coop \div Len(self_h)) > 1 THEN [move |-> D, patsy |-> pat]
         ELSE [move |-> C, patsy |-> pat]
    ELSE [move |-> Last(opp_h), patsy |-> pat]

\* GladsteinStrategy with cooperation_ratio < 0.5 in place of > 0.5.
GladsteinStrategyComparisonInverted(self_h, self_coop, opp_h, pat) ==
    IF Len(self_h) = 0 THEN [move |-> D, patsy |-> pat]
    ELSE IF pat
    THEN IF Last(opp_h) = D THEN [move |-> C, patsy |-> FALSE]
         ELSE IF 2 * self_coop < Len(self_h) THEN [move |-> D, patsy |-> pat]
         ELSE [move |-> C, patsy |-> pat]
    ELSE [move |-> Last(opp_h), patsy |-> pat]

\* GladsteinStrategy with cooperation_ratio >= 0.5 in place of > 0.5.
GladsteinStrategyDefectsAtHalf(self_h, self_coop, opp_h, pat) ==
    IF Len(self_h) = 0 THEN [move |-> D, patsy |-> pat]
    ELSE IF pat
    THEN IF Last(opp_h) = D THEN [move |-> C, patsy |-> FALSE]
         ELSE IF 2 * self_coop >= Len(self_h) THEN [move |-> D, patsy |-> pat]
         ELSE [move |-> C, patsy |-> pat]
    ELSE [move |-> Last(opp_h), patsy |-> pat]

GladsteinStrategy(self_h, self_coop, opp_h, pat) ==
    IF Len(self_h) = 0 THEN [move |-> D, patsy |-> pat]
    ELSE IF pat
    THEN IF Last(opp_h) = D THEN [move |-> C, patsy |-> FALSE]
         \* cooperation_ratio = self_coop / len(self.history) > 0.5
         ELSE IF 2 * self_coop > Len(self_h) THEN [move |-> D, patsy |-> pat]
         ELSE [move |-> C, patsy |-> pat]
    ELSE [move |-> Last(opp_h), patsy |-> pat]

\* GladsteinAccesses without the first-move guard at line 186.
GladsteinAccessesNoFirstMoveGuard(self_h, opp_h, pat) ==
    IF pat
    THEN IF Len(opp_h) = 0 THEN {LastRead(opp_h)}
         ELSE IF Last(opp_h) = D THEN {LastRead(opp_h)}
         ELSE {LastRead(opp_h), Division(self_h)}
    ELSE {LastRead(opp_h)}

\* What Gladstein.strategy reads and divides by: opponent.history[-1] at line
\* 191, the division by len(self.history) at line 195, opponent.history[-1] at
\* line 201. A read that fails ends the call.
GladsteinAccesses(self_h, opp_h, pat) ==
    IF Len(self_h) = 0 THEN {}
    ELSE IF pat
    THEN IF Len(opp_h) = 0 THEN {LastRead(opp_h)}
         ELSE IF Last(opp_h) = D THEN {LastRead(opp_h)}
         ELSE {LastRead(opp_h), Division(self_h)}
    ELSE {LastRead(opp_h)}

\* ------------------------------------------------------------ MoreGrofman

\* The loop of k86r: for i in range(j-1, k+1), ioppnt[i - 1] is read and a D adds one.
iprev7(moven, ioppnt) ==
    LET j == moven - 7
        k == moven - 1
    IN Cardinality({i \in PyRange(j - 1, k + 1) : PyIndex(ioppnt, i - 1) = D})

\* k86r with moven > 1 in place of moven > 2.
k86rOneCooperation(self_h, jpick, moven, ioppnt) ==
    IF ~(moven > 1) THEN C
    ELSE IF ~(moven > 7) THEN jpick
    ELSE LET myold == Last(self_h)
             n == iprev7(moven, ioppnt)
         IN IF myold = C /\ n <= 2 THEN C
            ELSE IF myold = C /\ n > 2 THEN D
            ELSE IF myold = D /\ n <= 1 THEN C
            ELSE D

\* k86r with iprev7 <= 0 in place of iprev7 <= 1 after an own D.
k86rUnforgiving(self_h, jpick, moven, ioppnt) ==
    IF ~(moven > 2) THEN C
    ELSE IF ~(moven > 7) THEN jpick
    ELSE LET myold == Last(self_h)
             n == iprev7(moven, ioppnt)
         IN IF myold = C /\ n <= 2 THEN C
            ELSE IF myold = C /\ n > 2 THEN D
            ELSE IF myold = D /\ n <= 0 THEN C
            ELSE D

k86r(self_h, jpick, moven, ioppnt) ==
    IF ~(moven > 2) THEN C
    ELSE IF ~(moven > 7) THEN jpick
    ELSE LET myold == Last(self_h)
             n == iprev7(moven, ioppnt)
         IN IF myold = C /\ n <= 2 THEN C
            ELSE IF myold = C /\ n > 2 THEN D
            ELSE IF myold = D /\ n <= 1 THEN C
            ELSE D

MoreGrofmanStrategy(self_h, opp_h) ==
    LET jpick == IF Len(opp_h) >= 1 THEN Last(opp_h) ELSE C
        moven == Len(self_h) + 1
    IN k86r(self_h, jpick, moven, opp_h)

\* What MoreGrofman.strategy and k86r read: opponent.history[-1] at line 241,
\* self.history[-1] at line 265 and ioppnt[python_index] at line 276 for every
\* i of the loop.
MoreGrofmanAccesses(self_h, opp_h) ==
    LET moven == Len(self_h) + 1
        j == moven - 7
        k == moven - 1
    IN (IF Len(opp_h) >= 1 THEN {LastRead(opp_h)} ELSE {})
       \cup (IF moven > 7
             THEN {LastRead(self_h)}
                  \cup {WindowRead(opp_h, i - 1) : i \in PyRange(j - 1, k + 1)}
             ELSE {})

\* ----------------------------------------------------------- match engine

\* The moves the opponent may play in the round after history h.
OppMoves(kind, h) ==
    IF kind = "Cooperator" THEN {C}
    ELSE IF kind = "Defector" THEN {D}
    ELSE IF kind = "Alternator" THEN {IF Len(h) % 2 = 0 THEN C ELSE D}
    ELSE Actions

\* The rounds the match is played for.
RoundLimit ==
    LET cap == IF opponent # "Any" THEN MaxScriptedRounds
               ELSE IF strategy = "MoreGrofman" THEN MaxWindowRounds
               ELSE MaxRounds
    IN IF length.finite /\ length.rounds < cap THEN length.rounds ELSE cap

Draws == 0 .. (RDen - 1)

Init ==
    /\ strategy \in Strategies
    /\ opponent \in Opponents
    /\ length \in (IF strategy = "Champion" THEN Lengths ELSE {Infinite})
    /\ self_history = <<>>
    /\ opp_history = <<>>
    /\ self_cooperations = 0
    /\ opp_defections = 0
    /\ is_TFT = FALSE
    /\ patsy = TRUE
    /\ r = <<>>
    /\ phase = "none"
    /\ move = NoMove
    /\ accesses = {}
    /\ twin_history = <<>>
    /\ twin_cooperations = 0
    /\ twin_move = NoMove

CanDecide(name) ==
    /\ strategy = name
    /\ move = NoMove
    /\ Len(self_history) < RoundLimit

ChampionDecide ==
    /\ CanDecide("Champion")
    /\ accesses' = ChampionAccesses(self_history, opp_history, length)
    /\ \E draw \in Draws :
          LET res == ChampionStrategy(self_history, opp_history, opp_defections,
                                      length, draw)
          IN /\ move' = res.move
             /\ phase' = res.phase
             /\ r' = res.r
    /\ UNCHANGED <<strategy, opponent, length, self_history, opp_history,
                   self_cooperations, opp_defections, is_TFT, patsy>>
    /\ UNCHANGED twin_vars

EatherleyDecide ==
    /\ CanDecide("Eatherley")
    /\ accesses' = EatherleyAccesses(opp_history)
    /\ \E draw \in Draws :
          LET res == EatherleyStrategy(opp_history, opp_defections, draw)
          IN /\ move' = res.move
             /\ r' = res.r
    /\ UNCHANGED <<strategy, opponent, length, self_history, opp_history,
                   self_cooperations, opp_defections, is_TFT, patsy, phase>>
    /\ UNCHANGED twin_vars

\* TesterDecide with the returned move also appended to self.history by the call.
TesterDecideAppendsOwnMove ==
    /\ CanDecide("Tester")
    /\ accesses' = TesterAccesses(self_history, opp_history, is_TFT)
    /\ LET res == TesterStrategy(self_history, opp_history, is_TFT)
       IN /\ move' = res.move
          /\ is_TFT' = res.is_TFT
          /\ self_history' = Append(self_history, res.move)
    /\ UNCHANGED <<strategy, opponent, length, opp_history,
                   self_cooperations, opp_defections, patsy, r, phase>>
    /\ UNCHANGED twin_vars

TesterDecide ==
    /\ CanDecide("Tester")
    /\ accesses' = TesterAccesses(self_history, opp_history, is_TFT)
    /\ LET res == TesterStrategy(self_history, opp_history, is_TFT)
       IN /\ move' = res.move
          /\ is_TFT' = res.is_TFT
    /\ UNCHANGED <<strategy, opponent, length, self_history, opp_history,
                   self_cooperations, opp_defections, patsy, r, phase>>
    /\ UNCHANGED twin_vars

GladsteinDecide ==
    /\ CanDecide("Gladstein")
    /\ accesses' = GladsteinAccesses(self_history, opp_history, patsy)
    /\ LET res == GladsteinStrategy(self_history, self_cooperations, opp_history, patsy)
       IN /\ move' = res.move
          /\ patsy' = res.patsy
    /\ UNCHANGED <<strategy, opponent, length, self_history, opp_history,
                   self_cooperations, opp_defections, is_TFT, r, phase>>
    /\ UNCHANGED twin_vars

MoreGrofmanDecide ==
    /\ CanDecide("MoreGrofman")
    /\ accesses' = MoreGrofmanAccesses(self_history, opp_history)
    /\ move' = MoreGrofmanStrategy(self_history, opp_history)
    /\ UNCHANGED <<strategy, opponent, length, self_history, opp_history,
                   self_cooperations, opp_defections, is_TFT, patsy, r, phase>>
    /\ UNCHANGED twin_vars

\* The engine resolves the round: the opponent's move is played, both moves are
\* appended to the histories and the counters advance.
EngineUpdate ==
    /\ move # NoMove
    /\ \E opp_move \in OppMoves(opponent, opp_history) :
          /\ opp_history' = Append(opp_history, opp_move)
          /\ opp_defections' = opp_defections + (IF opp_move = D THEN 1 ELSE 0)
    /\ self_history' = Append(self_history, move)
    /\ self_cooperations' = self_cooperations + (IF move = C THEN 1 ELSE 0)
    /\ move' = NoMove
    /\ r' = <<>>
    /\ phase' = "none"
    /\ accesses' = {}
    /\ UNCHANGED <<strategy, opponent, length, is_TFT, patsy>>
    /\ UNCHANGED twin_vars

Next ==
    \/ ChampionDecide
    \/ EatherleyDecide
    \/ TesterDecide
    \/ GladsteinDecide
    \/ MoreGrofmanDecide
    \/ EngineUpdate

Spec == Init /\ [][Next]_vars

\* ------------------------------------------------------- side-by-side run

\* A Tester and a Gladstein, each in its own match, meet the same opponent moves.
SideBySide == "Tester and Gladstein"

InitPair ==
    /\ strategy = SideBySide
    /\ opponent \in Opponents
    /\ length = Infinite
    /\ self_history = <<>>
    /\ opp_history = <<>>
    /\ self_cooperations = 0
    /\ opp_defections = 0
    /\ is_TFT = FALSE
    /\ patsy = TRUE
    /\ r = <<>>
    /\ phase = "none"
    /\ move = NoMove
    /\ accesses = {}
    /\ twin_history = <<>>
    /\ twin_cooperations = 0
    /\ twin_move = NoMove

\* Both decision calls of a round: Tester.strategy and Gladstein.strategy.
PairDecide ==
    /\ CanDecide(SideBySide)
    /\ LET tester == TesterStrategy(self_history, opp_history, is_TFT)
           gladstein == GladsteinStrategy(twin_history, twin_cooperations,
                                          opp_history, patsy)
       IN /\ move' = tester.move
          /\ is_TFT' = tester.is_TFT
          /\ twin_move' = gladstein.move
          /\ patsy' = gladstein.patsy
    /\ accesses' = TesterAccesses(self_history, opp_history, is_TFT)
                      \cup GladsteinAccesses(twin_history, opp_history, patsy)
    /\ UNCHANGED <<strategy, opponent, length, self_history, opp_history,
                   self_cooperations, opp_defections, r, phase,
                   twin_history, twin_cooperations>>

\* The engine resolves the round of both matches with the same opponent move.
PairUpdate ==
    /\ strategy = SideBySide
    /\ move # NoMove
    /\ \E opp_move \in OppMoves(opponent, opp_history) :
          /\ opp_history' = Append(opp_history, opp_move)
          /\ opp_defections' = opp_defections + (IF opp_move = D THEN 1 ELSE 0)
    /\ self_history' = Append(self_history, move)
    /\ self_cooperations' = self_cooperations + (IF move = C THEN 1 ELSE 0)
    /\ twin_history' = Append(twin_history, twin_move)
    /\ twin_cooperations' = twin_cooperations + (IF twin_move = C THEN 1 ELSE 0)
    /\ move' = NoMove
    /\ twin_move' = NoMove
    /\ accesses' = {}
    /\ UNCHANGED <<strategy, opponent, length, is_TFT, patsy, r, phase>>

NextPair ==
    \/ PairDecide
    \/ PairUpdate

SpecPair == InitPair /\ [][NextPair]_vars

\* ------------------------------------------------------------- properties

\* A decision call of the named strategy has returned and the round is not yet resolved:
\* the histories are still the ones the call read.
Decided(name) == strategy = name /\ move # NoMove

\* The number of D among positions lo..hi (1-based) of history h.
CountD(h, lo, hi) == Cardinality({i \in lo .. hi : h[i] = D})

\* C1: from its 8th move on, MoreGrofman's move is given by its own previous move
\* and the number of defections among the opponent's 7 most recent rounds:
\* after C, C for at most 2 and D for more; after D, C for at most 1 and D for more.
C1_SevenRoundTable ==
    (Decided("MoreGrofman") /\ Len(self_history) >= 7) =>
        LET n == Len(opp_history)
            recent_defections == CountD(opp_history, n - 6, n)
        IN move = IF Last(self_history) = C
                  THEN (IF recent_defections <= 2 THEN C ELSE D)
                  ELSE (IF recent_defections <= 1 THEN C ELSE D)

\* C2: from its 9th move on, MoreGrofman's move is the same when the opponent's
\* move 8 rounds back is the other one (own history and the opponent's 7 most
\* recent moves kept).
C2_EighthRoundExcluded ==
    (Decided("MoreGrofman") /\ Len(self_history) >= 8) =>
        LET n == Len(opp_history)
            other == [opp_history EXCEPT ![n - 7] = flip(@)]
        IN MoreGrofmanStrategy(self_history, other) = move

\* C3 (as claimed): with an infinite expected length Champion is in its final
\* phase in every round after round 0: D exactly when the opponent's previous move
\* was D and its defection proportion is at least max(0.4, r).
C3_InfiniteIsFinalPhase ==
    (Decided("Champion") /\ ~length.finite /\ Len(self_history) >= 1) =>
        /\ phase = "final"
        /\ move = D <=>
              /\ Last(opp_history) = D
              /\ r # <<>>
              /\ 5 * CountD(opp_history, 1, Len(opp_history)) >= 2 * Len(opp_history)
              /\ RDen * CountD(opp_history, 1, Len(opp_history)) >= r[1] * Len(opp_history)

\* C3 (amended): with an infinite expected length the first threshold comparison
\* holds in every round, so Champion returns C from the cooperate branch in every
\* round after round 0, whatever the opponent played, and draws no random number.
C3_InfiniteAlwaysCooperates ==
    (Decided("Champion") /\ ~length.finite /\ Len(self_history) >= 1) =>
        /\ move = C
        /\ phase = "cooperate"
        /\ r = <<>>

\* An infinite-length Champion has answered a round whose opponent has only defected.
C3_Witness ==
    /\ Decided("Champion")
    /\ ~length.finite
    /\ Len(self_history) >= 3
    /\ CountD(opp_history, 1, Len(opp_history)) = Len(opp_history)

\* The opponent's previous move was D in some round before round n (rounds from 0).
DefectedBefore(n) == \E m \in 1 .. (n - 1) : opp_history[m] = D

\* The moves part of C4, on the rounds played so far and the pending one.
C4_Moves ==
    /\ \A n \in 1 .. (Len(self_history) - 1) :
          /\ (opp_history[n] = D /\ ~DefectedBefore(n)) => self_history[n + 1] = C
          /\ DefectedBefore(n) => self_history[n + 1] = opp_history[n]
    /\ (move # NoMove /\ Len(self_history) >= 1) =>
          LET n == Len(self_history) IN
          /\ (opp_history[n] = D /\ ~DefectedBefore(n)) => (move = C /\ is_TFT)
          /\ DefectedBefore(n) => (move = opp_history[n] /\ is_TFT)

\* C4: at the first round n >= 1 whose preceding opponent move was D, Tester
\* returns C and sets is_TFT; is_TFT is never cleared; in every later round
\* Tester's move is the opponent's previous move.
C4_TesterSwitchesToTitForTat ==
    /\ [](strategy = "Tester" => C4_Moves)
    /\ [][is_TFT => is_TFT']_vars

\* Tester has apologised and since then answered both a C and a D of the opponent.
C4_Witness ==
    /\ strategy = "Tester"
    /\ is_TFT
    /\ \E n \in 1 .. (Len(self_history) - 1) :
          /\ DefectedBefore(n)
          /\ opp_history[n] = C
          /\ \E k \in (n + 1) .. (Len(self_history) - 1) : opp_history[k] = D

\* The moves part of C5, on the rounds played so far and the pending one.
C5_Moves ==
    /\ \A n \in 1 .. (Len(self_history) - 1) :
          /\ (opp_history[n] = D /\ ~DefectedBefore(n)) => self_history[n + 1] = C
          /\ DefectedBefore(n) => self_history[n + 1] = opp_history[n]
    /\ (move # NoMove /\ Len(self_history) >= 1) =>
          LET n == Len(self_history) IN
          /\ (opp_history[n] = D /\ ~DefectedBefore(n)) => (move = C /\ ~patsy)
          /\ DefectedBefore(n) => (move = opp_history[n] /\ ~patsy)
    /\ opponent = "Defector" =>
          \A i \in 1 .. Len(self_history) : self_history[i] = IF i = 2 THEN C ELSE D

\* C5: at the first round n >= 1 whose preceding opponent move was D, Gladstein
\* returns C and sets patsy to false; patsy never becomes true again; in every
\* later round its move is the opponent's previous move. Against an opponent that
\* always defects its moves are D, C, D, D, D, ...
C5_GladsteinApologisesOnce ==
    /\ [](strategy = "Gladstein" => C5_Moves)
    /\ [][~patsy => ~patsy']_vars

\* Gladstein has played an always-defecting opponent for 6 rounds.
C5_Witness ==
    /\ strategy = "Gladstein"
    /\ ~patsy
    /\ Len(self_history) >= 6
    /\ opponent = "Defector"

C7_ChampionPhaseBoundaries ==
    (Decided("Champion") /\ length.finite) =>
        LET n == Len(self_history)
            L == length.rounds
        IN /\ (n >= 1 /\ 20 * n < L) => (move = C /\ phase = "cooperate")
           /\ (n >= 1 /\ 20 * n >= L /\ 40 * n < 5 * L) =>
                 (move = Last(opp_history) /\ phase = "mirror")
           /\ (n >= 1 /\ 20 * n >= L /\ 40 * n >= 5 * L) => phase = "final"
           /\ (n >= 1 /\ 20 * n >= L /\ (n = 1 \/ 20 * (n - 1) < L)) =>
                 move = Last(opp_history)
           /\ (L = 20 /\ n = 1) => phase = "mirror"
           /\ (L = 200 /\ n <= 9) => move = C
           /\ (L = 200 /\ n \in 10 .. 24) =>
                 (move = Last(opp_history) /\ phase = "mirror")
           /\ (L = 200 /\ n = 25) => phase = "final"

\* Champion, with L = 200, has mirrored a D in round 24, its last mirror round.
C7_Witness ==
    /\ Decided("Champion")
    /\ length = Finite(200)
    /\ Len(self_history) = 24
    /\ Last(opp_history) = D
    /\ move = D
    /\ phase = "mirror"

\* C8: while the opponent has only cooperated, Tester's moves are D, C, C and then
\* D, C, D, C, ..., each move from the 4th on the flip of the one before, and
\* is_TFT stays false.
C8_TesterAgainstCooperation ==
    strategy = "Tester" =>
        /\ \A k \in 1 .. Len(self_history) :
              (\A i \in 1 .. (k - 1) : opp_history[i] = C) =>
                  /\ self_history[k] = IF k = 1 THEN D
                                       ELSE IF k \in {2, 3} THEN C
                                       ELSE IF k % 2 = 0 THEN D ELSE C
                  /\ k >= 4 => self_history[k] = flip(self_history[k - 1])
        /\ (\A i \in 1 .. Len(opp_history) : opp_history[i] = C) => ~is_TFT

\* Tester has played 8 rounds against an opponent that always cooperates.
C8_Witness ==
    /\ strategy = "Tester"
    /\ opponent = "Cooperator"
    /\ Len(self_history) >= 8
    /\ self_history[8] = D

\* The round being decided is past both of Champion's thresholds.
PastBothThresholds ==
    /\ Len(self_history) >= 1
    /\ length.finite
    /\ 20 * Len(self_history) >= length.rounds
    /\ 40 * Len(self_history) >= 5 * length.rounds

C10_CooperatesFromSixtyPercent ==
    (Decided("Champion") /\ PastBothThresholds) =>
        LET n == Len(opp_history)
            cooperations == n - CountD(opp_history, 1, n)
        IN 5 * cooperations >= 3 * n => move = C

\* C11: Eatherley returns C when the opponent has no history, C when the
\* opponent's previous move was C, and otherwise C if the draw r is below
\* 1 - (opponent defections / opponent history length) and D if not; it defects
\* only after a D of the opponent, and for every draw when the opponent has only
\* defected.
C11_EatherleyRule ==
    Decided("Eatherley") =>
        LET n == Len(opp_history)
            defections == CountD(opp_history, 1, n)
        IN /\ n = 0 => move = C
           /\ (n >= 1 /\ Last(opp_history) = C) => move = C
           /\ (n >= 1 /\ Last(opp_history) = D) =>
                 /\ r # <<>>
                 /\ move = IF r[1] * n < RDen * (n - defections) THEN C ELSE D
           /\ (n >= 1 /\ defections = n) => move = D
           /\ move = D => (n >= 1 /\ Last(opp_history) = D)

\* Eatherley has cooperated after a D of an opponent that defected in half of at
\* least 4 rounds, on a draw above 0.
C11_Witness ==
    /\ Decided("Eatherley")
    /\ Len(opp_history) >= 4
    /\ Last(opp_history) = D
    /\ 2 * opp_defections = Len(opp_history)
    /\ r # <<>>
    /\ r[1] > 0
    /\ move = C

\* C12: in every decision call of a match (own and opponent histories of equal
\* length, starting empty) every division is by a history length >= 1 and every
\* read of a history's last element is of a non-empty history.
C12_NoEmptyHistoryFailure ==
    /\ Len(self_history) = Len(opp_history)
    /\ \A a \in accesses :
          /\ a.what = "divide" => a.size >= 1
          /\ a.what = "last" => a.size >= 1
    /\ move # NoMove => move \in Actions

\* Gladstein, still in patsy mode, has read the opponent's last move and divided
\* by the length of its own history of one move.
C12_Witness ==
    /\ Decided("Gladstein")
    /\ Len(self_history) = 1
    /\ accesses = {LastRead(opp_history), Division(self_history)}

\* C13: on its moves 1 and 2 MoreGrofman returns C whatever the opponent
\* played; on its moves 3 to 7 it returns the opponent's previous move.
C13_MoreGrofmanFirstPhases ==
    Decided("MoreGrofman") =>
        /\ Len(self_history) \in {0, 1} => move = C
        /\ Len(self_history) \in 2 .. 6 => move = Last(opp_history)

\* MoreGrofman has cooperated on move 2 after a D and mirrors a D on move 7.
C13_Witness ==
    /\ Decided("MoreGrofman")
    /\ Len(self_history) = 6
    /\ opp_history[1] = D
    /\ self_history[2] = C
    /\ Last(opp_history) = D
    /\ move = D

\* C14: after round 7, when MoreGrofman's own previous move was C, it cooperates
\* if the opponent defected less than twice in the last 7 rounds and defects if
\* the opponent defected twice or more in the last 7 rounds.
C14_DefectsFromTwoDefections ==
    (Decided("MoreGrofman") /\ Len(self_history) >= 7 /\ Last(self_history) = C) =>
        LET n == Len(opp_history)
            recent_defections == CountD(opp_history, n - 6, n)
        IN move = IF recent_defections < 2 THEN C ELSE D

\* C15: while patsy is true and a move was played, Gladstein's defections, the
\* first one not counted, are less than half of its moves:
\* 2 * (own defections - 1) < own history length.
C15_DefectionRatioUnderHalf ==
    (strategy = "Gladstein" /\ patsy /\ Len(self_history) >= 1) =>
        LET defections == CountD(self_history, 1, Len(self_history))
        IN /\ self_history[1] = D
           /\ 2 * (defections - 1) < Len(self_history)

\* Gladstein, still in patsy mode, has defected 4 times in 8 moves.
C15_Witness ==
    /\ strategy = "Gladstein"
    /\ patsy
    /\ Len(self_history) = 8
    /\ CountD(self_history, 1, 8) = 4

\* C16: with both histories empty, Champion returns C, Eatherley C, Tester D,
\* Gladstein D and MoreGrofman C, for every match length, and no random number
\* is drawn.
C16_OpeningMoves ==
    (move # NoMove /\ Len(self_history) = 0 /\ Len(opp_history) = 0) =>
        /\ strategy = "Champion" => move = C
        /\ strategy = "Eatherley" => move = C
        /\ strategy = "Tester" => move = D
        /\ strategy = "Gladstein" => move = D
        /\ strategy = "MoreGrofman" => move = C
        /\ r = <<>>

\* Tester has made its first move of a match.
C16_Witness ==
    /\ Decided("Tester")
    /\ Len(self_history) = 0
    /\ Len(opp_history) = 0
    /\ move = D

\* A step is a decision call: a move is returned where none was pending.
IsDecisionCall == move = NoMove /\ move' # NoMove

\* A step is the engine's update after a round.
IsEngineUpdate == move # NoMove /\ move' = NoMove

\* C17: a decision call leaves both histories and the cooperation and defection
\* counts unchanged and may change only the strategy's own flag (is_TFT for
\* Tester, patsy for Gladstein); the histories and counts change only in the
\* engine's update after the round.
C17_DecisionFrame ==
    [][/\ IsDecisionCall =>
             /\ self_history' = self_history
             /\ opp_history' = opp_history
             /\ self_cooperations' = self_cooperations
             /\ opp_defections' = opp_defections
             /\ (is_TFT' # is_TFT => strategy = "Tester")
             /\ (patsy' # patsy => strategy = "Gladstein")
       /\ (\/ self_history' # self_history
           \/ opp_history' # opp_history
           \/ self_cooperations' # self_cooperations
           \/ opp_defections' # opp_defections) => IsEngineUpdate]_vars

\* Tester's call has just set is_TFT after the opponent's first D, with 3 rounds
\* of history in place.
C17_Witness ==
    /\ Decided("Tester")
    /\ Len(self_history) = 3
    /\ Len(opp_history) = 3
    /\ opp_history = <<C, C, D>>
    /\ is_TFT

\* The opponent-history position a read of index i resolves to (0-based).
Position(a) == IF a.index >= 0 THEN a.index ELSE a.size + a.index

\* C18: from move 8 on, every opponent-history index the window loop of k86r
\* reads lies in [moven-8, moven-2] and in [0, opponent history length - 1]: no
\* read uses a negative index and no opponent round is counted more than once.
C18_WindowReadsInRange ==
    (Decided("MoreGrofman") /\ Len(self_history) >= 7) =>
        LET moven == Len(self_history) + 1
            window == {a \in accesses : a.what = "window"}
        IN /\ \A a \in window :
                 /\ a.index >= moven - 8
                 /\ a.index <= moven - 2
                 /\ a.index >= 0
                 /\ a.index <= Len(opp_history) - 1
           /\ \A a, b \in window : Position(a) = Position(b) => a = b

\* C19: run side by side against the same opponent moves, Gladstein and Tester
\* return the same move in every round, and is_TFT is true exactly when patsy is
\* false.
C19_GladsteinIsTester ==
    strategy = SideBySide =>
        /\ twin_history = self_history
        /\ twin_move = move
        /\ is_TFT <=> ~patsy

\* Both have played 8 rounds in which the opponent first defected in round 5,
\* and both are past their apology.
C19_Witness ==
    /\ strategy = SideBySide
    /\ Len(self_history) = 8
    /\ Len(twin_history) = 8
    /\ opp_history[6] = D
    /\ CountD(opp_history, 1, 5) = 0
    /\ is_TFT
    /\ ~patsy

\* C20: from move 8 on, if the opponent cooperated in each of its 7 most recent
\* rounds MoreGrofman returns C, whatever its own previous move and whatever
\* the opponent played earlier; against an opponent that has always cooperated
\* it has never defected.
C20_ForgivesAfterSevenCooperations ==
    strategy = "MoreGrofman" =>
        LET n == Len(opp_history) IN
        /\ (move # NoMove /\ Len(self_history) >= 7 /\ CountD(opp_history, n - 6, n) = 0)
              => move = C
        /\ CountD(opp_history, 1, n) = 0 =>
              /\ CountD(self_history, 1, Len(self_history)) = 0
              /\ move # D

\* MoreGrofman's previous move was D, the opponent defected 8 rounds back and
\* cooperated in the 7 rounds since: MoreGrofman returns C.
C20_Witness ==
    /\ Decided("MoreGrofman")
    /\ Len(self_history) >= 8
    /\ Last(self_history) = D
    /\ opp_history[Len(opp_history) - 7] = D
    /\ CountD(opp_history, Len(opp_history) - 6, Len(opp_history)) = 0
    /\ move = C

====
